---------------------------- MODULE Spec2Model ----------------------------
(***************************************************************************)
(* docker-chatops: a Telegram bot (src/bot/exec/chatops.go) that maps chat *)
(* commands to container-engine calls (src/docker/docker.go).              *)
(*                                                                         *)
(* Texts are TLA+ strings.  A byte count (a Go int, 64 bits wide) is a     *)
(* record [neg, mag]: mag is the magnitude in base 1024, most significant  *)
(* limb first, without leading zeros (<<>> is 0), so that values up to     *)
(* 2^63-1 are computed with small integers only.                           *)
(***************************************************************************)
EXTENDS Integers, Sequences, FiniteSets, TLC

VARIABLES
    logsReplyKeyboard,     \* chatops.go:25, the process-wide logs menu
    restartReplyKeyboard,  \* chatops.go:26, the process-wide restart menu
    handlers,              \* the bot's registered text handlers
    procs,                 \* the logs and restart handlers that are running
    last,                  \* the handler invocation that returned in the last step
    opened,                \* per flow, the menu of its latest "Select container:"
    nUpdates,              \* number of inbound updates delivered so far
    fnIn,                  \* argument the pure function was applied to
    fnOut                  \* its result

vars == <<logsReplyKeyboard, restartReplyKeyboard, handlers, procs, last,
          opened, nUpdates, fnIn, fnOut>>

botVars == <<logsReplyKeyboard, restartReplyKeyboard, handlers, procs, last,
             opened, nUpdates>>

-----------------------------------------------------------------------------
(* Bounds of the model *)

MaxUpdates == 2
MaxSeqUpdates == 3
MaxImages == 2

(* A Go int is 64 bits: at most 7 limbs of 10 bits, the top one below 8. *)
IntLimbs == 7

-----------------------------------------------------------------------------
(* Go's strings package, as far as the program uses it *)

HasPrefix(s, prefix) ==
    /\ Len(s) >= Len(prefix)
    /\ SubSeq(s, 1, Len(prefix)) = prefix

(* strings.Split(s, sep) for a one-character sep: the pieces between the   *)
(* occurrences of sep, in order (n occurrences give n + 1 pieces).         *)
Split(s, sep) ==
    LET pos == {i \in 1..Len(s) : SubSeq(s, i, i) = sep}
        n == Cardinality(pos)
        nth(k) == CHOOSE i \in pos : Cardinality({j \in pos : j < i}) = k - 1
    IN  [k \in 1..(n + 1) |->
            SubSeq(s, IF k = 1 THEN 1 ELSE nth(k - 1) + 1,
                      IF k = n + 1 THEN Len(s) ELSE nth(k) - 1)]

RECURSIVE Join(_, _)
(* strings.Join(elems, sep) *)
Join(elems, sep) ==
    IF elems = <<>> THEN ""
    ELSE IF Len(elems) = 1 THEN elems[1]
    ELSE elems[1] \o sep \o Join(Tail(elems), sep)

-----------------------------------------------------------------------------
(* docker.go: prettyByteSize *)

BitLen(x) ==
    IF x = 0 THEN 0 ELSE CHOOSE n \in 1..11 : 2^(n-1) <= x /\ x < 2^n

RECURSIVE AddCarry(_, _)
(* mag + c, where c is added to the least significant limb *)
AddCarry(mag, c) ==
    IF c = 0 THEN mag
    ELSE IF mag = <<>> THEN <<c>>
    ELSE LET n == Len(mag)
             s == mag[n] + c
         IN  Append(AddCarry(SubSeq(mag, 1, n - 1), s \div 1024), s % 1024)

(* float64(b): the magnitude rounded to 53 significant bits, ties to even. *)
(* Up to 63 bits at most 10 bits are dropped, all in the lowest limb.      *)
Float64Of(mag) ==
    IF mag = <<>> THEN mag
    ELSE LET n == Len(mag)
             bits == 10 * (n - 1) + BitLen(mag[1])
         IN  IF bits <= 53 THEN mag
             ELSE LET d == bits - 53
                      low == mag[n]
                      rem == low % (2^d)
                      half == 2^(d - 1)
                      lsb == IF d < 10 THEN (low \div (2^d)) % 2
                                       ELSE mag[n - 1] % 2
                      trunc == [mag EXCEPT ![n] = low - rem]
                  IN  IF rem > half \/ (rem = half /\ lsb = 1)
                      THEN AddCarry(trunc, 2^d)
                      ELSE trunc

Units == <<"", "Ki", "Mi", "Gi", "Ti", "Pi", "Ei", "Zi">>

(* bf is mag / 1024^k (dividing a float64 by 1024.0 is exact). *)
(* math.Abs(bf) < 1024.0 *)
AbsLt1024(mag, k) == Len(mag) <= k + 1

RECURSIVE Mul10(_, _)
(* 10 * frac + c for a fraction given by its limbs: the limbs of the       *)
(* fractional part of the product, and the integer carried out of it.      *)
Mul10(frac, c) ==
    IF frac = <<>> THEN [carry |-> c, limbs |-> <<>>]
    ELSE LET n == Len(frac)
             v == frac[n] * 10 + c
             hi == Mul10(SubSeq(frac, 1, n - 1), v \div 1024)
         IN  [carry |-> hi.carry, limbs |-> Append(hi.limbs, v % 1024)]

RECURSIVE LimbsToInt(_)
LimbsToInt(mag) ==
    IF mag = <<>> THEN 0
    ELSE 1024 * LimbsToInt(SubSeq(mag, 1, Len(mag) - 1)) + mag[Len(mag)]

(* fmt's %.1f of mag / 1024^k: one decimal, the exact value rounded to the *)
(* nearest tenth, ties to the even tenth.                                  *)
FormatF1(neg, mag, k) ==
    LET n == Len(mag)
        int == LimbsToInt(SubSeq(mag, 1, n - k))
        frac == [i \in 1..k |-> IF n - k + i >= 1 THEN mag[n - k + i] ELSE 0]
        m == Mul10(frac, 0)
        r == m.limbs
        restZero == \A i \in 2..Len(r) : r[i] = 0
        above == r # <<>> /\ (r[1] > 512 \/ (r[1] = 512 /\ ~restZero))
        tie == r # <<>> /\ r[1] = 512 /\ restZero
        t0 == 10 * int + m.carry
        t == IF above \/ (tie /\ t0 % 2 = 1) THEN t0 + 1 ELSE t0
    IN  (IF neg /\ mag # <<>> THEN "-" ELSE "")
            \o ToString(t \div 10) \o "." \o ToString(t % 10)

RECURSIVE prettyLoop(_, _, _)
(* the loop over the units: k divisions by 1024.0 have been done *)
prettyLoop(neg, mag, k) ==
    IF k >= Len(Units) THEN FormatF1(neg, mag, k) \o "YiB"
    ELSE IF AbsLt1024(mag, k)
         THEN FormatF1(neg, mag, k) \o Units[k + 1] \o "B"
         ELSE prettyLoop(neg, mag, k + 1)

prettyByteSize(b) == prettyLoop(b.neg, Float64Of(b.mag), 0)

-----------------------------------------------------------------------------
(* docker.go: GetImages, after a successful ImageList *)

RECURSIVE RepoTagsText(_)
(* repoTags += fmt.Sprintf("%v,", repoTag) for every tag *)
RepoTagsText(tags) ==
    IF tags = <<>> THEN "" ELSE tags[1] \o "," \o RepoTagsText(Tail(tags))

ImageEntry(image) ==
    "Tags: " \o RepoTagsText(image.RepoTags) \o "\nSize: "
        \o prettyByteSize(image.Size) \o "\n"

RECURSIVE imagesLoop(_, _, _)
(* the loop over the images: [resp, untagged] *)
imagesLoop(images, resp, untagged) ==
    IF images = <<>> THEN [resp |-> resp, untagged |-> untagged]
    ELSE IF Len(Head(images).RepoTags) = 0
         THEN imagesLoop(Tail(images), resp, untagged + 1)
         ELSE imagesLoop(Tail(images), Append(resp, ImageEntry(Head(images))),
                         untagged)

(* the last line counts every image, tagged or not *)
GetImagesRespCountAll(images) ==
    Append(imagesLoop(images, <<>>, 0).resp,
           "There are " \o ToString(Len(images)) \o " untagged images.")

GetImagesResp(images) ==
    LET l == imagesLoop(images, <<>>, 0)
    IN  Append(l.resp,
               "There are " \o ToString(l.untagged) \o " untagged images.")

GetImages(images) == Join(GetImagesResp(images), "\n")

-----------------------------------------------------------------------------
(* Inputs of the pure functions *)

NoValue == "<none>"

(* Limbs that reach the unit boundaries and float64's rounding. *)
LimbVals == {0, 1, 960, 1023}

Magnitudes ==
    UNION { { m \in [1..n -> LimbVals] :
                /\ n > 0 => m[1] # 0
                /\ n = IntLimbs => m[1] < 8 } : n \in 0..IntLimbs }

ByteCounts == [neg : BOOLEAN, mag : Magnitudes]

SizeOf(mag) == [neg |-> FALSE, mag |-> mag]

TagLists == {<<>>, <<"nginx:latest">>, <<"app:1", "app:2">>}

ImageSizes == {SizeOf(<<>>), SizeOf(<<1, 0>>), SizeOf(<<1, 512, 0>>)}

Images == [RepoTags : TagLists, Size : ImageSizes]

ImageLists == UNION { [1..n -> Images] : n \in 0..MaxImages }

-----------------------------------------------------------------------------
(* The chats, the engine and the inbound texts *)

ChatIds == {1, 2, 3}

(* ALLOWED_CHAT_IDS=1,2 : chat 3 is not authorized *)
allowedChatIds == {1, 2}

botVersion == "v1.1.3"

Flows == {"logs", "restart"}

Procs == {1, 2}

CtrA ==
    [Names |-> <<"a">>, Image |-> "nginx", Command |-> "nginx -g",
     Mounts |-> <<[Source |-> "/srv", Destination |-> "/data"]>>,
     Ports |-> <<[PrivatePort |-> 80, PublicPort |-> 8080]>>,
     Status |-> "Up 2 hours"]

CtrB ==
    [Names |-> <<"b">>, Image |-> "redis", Command |-> "redis-server",
     Mounts |-> <<>>, Ports |-> <<>>, Status |-> "Exited (0)"]

(* The engine's listing is plain text to the program: a name with a space. *)
CtrAB ==
    [Names |-> <<"a b">>, Image |-> "app", Command |-> "run",
     Mounts |-> <<>>, Ports |-> <<>>, Status |-> "Up 1 second"]

Containers == {CtrA, CtrB, CtrAB}

(* What the engine may list when asked: nothing, two containers, one. *)
ContainerLists == {<<>>, <<CtrA, CtrB>>, <<CtrAB>>}

ContainerNames == UNION { {c.Names[i] : i \in 1..Len(c.Names)} : c \in Containers }

BotImageLists ==
    { <<>>,
      <<[RepoTags |-> <<"nginx:latest">>, Size |-> SizeOf(<<1, 512, 0>>)],
        [RepoTags |-> <<>>, Size |-> SizeOf(<<1, 0>>)]>> }

ErrClient == "unable to parse docker host"
ErrApi == "Cannot connect to the Docker daemon"
ErrRead == "unexpected EOF"

Commands == {"/ps", "/logs", "/restart", "/images", "/version"}

Texts ==
    Commands
        \cup {"Logs " \o n : n \in ContainerNames}
        \cup {"Restart " \o n : n \in ContainerNames}
        \cup {"Cancel Logs", "Cancel Restart", "hello"}

-----------------------------------------------------------------------------
(* docker.go: the engine functions.  Each returns the set of its possible  *)
(* outcomes [api, err, val]: api counts the requests sent to the engine,   *)
(* err is the error's text ("" for none), val the value returned.          *)

Failure(api, err) == [api |-> api, err |-> err, val |-> NoValue]
Success(val) == [api |-> 1, err |-> "", val |-> val]

RECURSIVE MountsText(_)
MountsText(mounts) ==
    IF mounts = <<>> THEN <<>>
    ELSE <<Head(mounts).Source \o ":" \o Head(mounts).Destination>>
             \o MountsText(Tail(mounts))

RECURSIVE PortsText(_)
PortsText(ports) ==
    IF ports = <<>> THEN <<>>
    ELSE <<ToString(Head(ports).PrivatePort) \o "->"
               \o ToString(Head(ports).PublicPort)>> \o PortsText(Tail(ports))

ContainerBlock(ctr) ==
    "Name: " \o Join(ctr.Names, ", ")
        \o "\nImage: " \o ctr.Image
        \o "\ncommand: " \o ctr.Command
        \o "\nmounts: " \o Join(MountsText(ctr.Mounts), "\n")
        \o "\nports: " \o Join(PortsText(ctr.Ports), "\n")
        \o "\nstatus: " \o ctr.Status \o "\n\n"

RECURSIVE ContainerBlocks(_)
ContainerBlocks(containers) ==
    IF containers = <<>> THEN <<>>
    ELSE <<ContainerBlock(Head(containers))>> \o ContainerBlocks(Tail(containers))

ListContainers ==
    {Failure(0, ErrClient), Failure(1, ErrApi)}
        \cup { Success(Join(<<"*Containers:*\n\n">> \o ContainerBlocks(l), ""))
                 : l \in {<<>>, <<CtrA, CtrB>>} }

RECURSIVE NamesOf(_)
(* resp = append(resp, ctr.Names...) for every container *)
NamesOf(containers) ==
    IF containers = <<>> THEN <<>>
    ELSE Head(containers).Names \o NamesOf(Tail(containers))

ListContainersNamesOnly ==
    {Failure(0, ErrClient), Failure(1, ErrApi)}
        \cup { Success(NamesOf(l)) : l \in ContainerLists }

TailLogs(containerName) ==
    {Failure(0, ErrClient), Failure(1, ErrApi), Failure(1, ErrRead),
     Success("log of " \o containerName \o "\n")}

RestartContainer(containerName) ==
    {Failure(0, ErrClient), Failure(1, ErrApi), Success("Container restarted.")}

GetImagesCall ==
    {Failure(0, ErrClient), Failure(1, ErrApi)}
        \cup { Success(GetImages(l)) : l \in BotImageLists }

GetDockerVersion ==
    {Failure(0, ErrClient), Failure(1, ErrApi), Success("27.3.1")}

-----------------------------------------------------------------------------
(* chatops.go: what a handler invocation records *)

(* A nil *reply.ReplyKeyboard, and a message without a menu: no rows at   *)
(* all (a keyboard made by reply.New has at least one row).                *)
NoKeyboard == <<>>

(* One call of a docker function: its name, argument and outcome. *)
Call(fn, arg, o) == [fn |-> fn, arg |-> arg, api |-> o.api, err |-> o.err]

(* message(text, b, ctx, chatId): one outbound message without a menu.     *)
(* Whether the transport delivers it only decides a log line.              *)
message(text, chatId) == [chat |-> chatId, text |-> text, markup |-> NoKeyboard]

(* b.SendMessage with ReplyMarkup: the menu as it is when it is sent *)
SendMenu(chatId, keyboard) ==
    [chat |-> chatId, text |-> "Select container:", markup |-> keyboard]

(* slices.Contains(allowedChatIds, update.Message.Chat.ID) *)
AuthorizedAlways(chatId) == TRUE
Authorized(chatId) == chatId \in allowedChatIds

Nothing == [calls |-> <<>>, sends |-> <<>>]

Cancelled(chatId) == [calls |-> <<>>, sends |-> <<message("Cancelled.", chatId)>>]

(* resp, err := docker.F(...); then message(err.Error()) or message(resp): *)
(* one call, one message, for the outcome o of the call.                   *)
ReplyWithRetry(fn, arg, o, chatId, text) ==
    IF o.err # ""
    THEN [calls |-> <<Call(fn, arg, o), Call(fn, arg, o)>>,
          sends |-> <<message(o.err, chatId)>>]
    ELSE [calls |-> <<Call(fn, arg, o)>>, sends |-> <<message(text, chatId)>>]
Reply(fn, arg, o, chatId, text) ==
    [calls |-> <<Call(fn, arg, o)>>,
     sends |-> IF o.err # "" THEN <<message(o.err, chatId)>>
                             ELSE <<message(text, chatId)>>]

(* The handlers that run without touching shared state: the set of what    *)
(* one invocation can do, one element per outcome of its engine call.      *)

ps(chatId) ==
    IF ~Authorized(chatId) THEN {Nothing}
    ELSE { Reply("ListContainers", NoValue, o, chatId, o.val)
             : o \in ListContainers }

images(chatId) ==
    IF ~Authorized(chatId) THEN {Nothing}
    ELSE { Reply("GetImages", NoValue, o, chatId, o.val) : o \in GetImagesCall }

version(chatId) ==
    IF ~Authorized(chatId) THEN {Nothing}
    ELSE { Reply("GetDockerVersion", NoValue, o, chatId,
                 IF o.err # "" THEN ""
                 ELSE "Bot version: " \o botVersion
                          \o "\nDocker version specifics:\n" \o o.val)
             : o \in GetDockerVersion }

(* strings.Split(update.Message.Text, " ")[1] *)
SelectedName(text) == Split(text, " ")[2]

onReplyLogsWrongLabel(chatId, text) ==
    IF ~Authorized(chatId) THEN {Nothing}
    ELSE IF text = "Cancel Restart" THEN {Cancelled(chatId)}
    ELSE IF HasPrefix(text, "Logs ")
         THEN { Reply("TailLogs", SelectedName(text), o, chatId, o.val)
                  : o \in TailLogs(SelectedName(text)) }
    ELSE {Nothing}
onReplyLogs(chatId, text) ==
    IF ~Authorized(chatId) THEN {Nothing}
    ELSE IF text = "Cancel Logs" THEN {Cancelled(chatId)}
    ELSE IF HasPrefix(text, "Logs ")
         THEN { Reply("TailLogs", SelectedName(text), o, chatId, o.val)
                  : o \in TailLogs(SelectedName(text)) }
    ELSE {Nothing}

onReplyRestart(chatId, text) ==
    IF ~Authorized(chatId) THEN {Nothing}
    ELSE IF text = "Cancel Restart" THEN {Cancelled(chatId)}
    ELSE IF HasPrefix(text, "Restart ")
         THEN { Reply("RestartContainer", SelectedName(text), o, chatId, o.val)
                  : o \in RestartContainer(SelectedName(text)) }
    ELSE {Nothing}

(* logs, restart: after initLogKeyboard / initRestartKeyboard has called   *)
(* the listing with outcome o.  On an error the handler sends the error's  *)
(* text and returns; otherwise the buttons are added, one per name.        *)
AfterListingNoReturn(pr, o) ==
    IF o.err # ""
    THEN [pr EXCEPT !.pc = "send",
                    !.calls = <<Call("ListContainersNamesOnly", NoValue, o)>>,
                    !.sends = <<message(o.err, pr.chat)>>]
    ELSE [pr EXCEPT !.pc = "button", !.ctr = o.val, !.i = 1,
                    !.calls = <<Call("ListContainersNamesOnly", NoValue, o)>>]
AfterListing(pr, o) ==
    IF o.err # ""
    THEN [pr EXCEPT !.pc = "done",
                    !.calls = <<Call("ListContainersNamesOnly", NoValue, o)>>,
                    !.sends = <<message(o.err, pr.chat)>>]
    ELSE [pr EXCEPT !.pc = "button", !.ctr = o.val, !.i = 1,
                    !.calls = <<Call("ListContainersNamesOnly", NoValue, o)>>]

-----------------------------------------------------------------------------
(* The reply keyboard: its rows of button labels *)

(* reply.New(b, ...): a keyboard with one empty row.  reply.New never      *)
(* looks at the keyboard that the variable held.                           *)
KeptKeyboard(old) == IF old = NoKeyboard THEN <<<<>>>> ELSE old
NewKeyboard(old) == <<<<>>>>

(* kb.Button(text, b, bot.MatchTypeExact, handler): the label is appended  *)
(* to the last row (and the handler registered, see Register).             *)
Button(kb, text) == [kb EXCEPT ![Len(kb)] = Append(@, text)]

(* kb.Row() *)
Row(kb) == Append(kb, <<>>)

RECURSIVE Labels(_)
(* the buttons of a keyboard, in order *)
Labels(kb) == IF kb = <<>> THEN <<>> ELSE Head(kb) \o Labels(Tail(kb))

LabelSet(kb) == {Labels(kb)[i] : i \in 1..Len(Labels(kb))}

Action(f) == IF f = "logs" THEN "Logs" ELSE "Restart"

(* the restart keyboard labelled with the format string of the logs one *)
ButtonLabelLogs(f, name) == "Logs " \o name

(* fmt.Sprintf("Logs %v", name), fmt.Sprintf("Restart %v", name) *)
ButtonLabel(f, name) == Action(f) \o " " \o name

CancelLabel(f) == "Cancel " \o Action(f)

ReplyHandler(f) == IF f = "logs" THEN "onReplyLogs" ELSE "onReplyRestart"

Keyboard(f) == IF f = "logs" THEN logsReplyKeyboard ELSE restartReplyKeyboard

SetKeyboard(f, kb) ==
    IF f = "logs"
    THEN logsReplyKeyboard' = kb /\ UNCHANGED restartReplyKeyboard
    ELSE restartReplyKeyboard' = kb /\ UNCHANGED logsReplyKeyboard

-----------------------------------------------------------------------------
(* The bot's dispatch: main registers the five commands; every Button call *)
(* registers its label, and nothing is ever unregistered.                  *)

MainHandlers ==
    { [text |-> "/ps", fn |-> "ps"],
      [text |-> "/logs", fn |-> "logs"],
      [text |-> "/restart", fn |-> "restart"],
      [text |-> "/images", fn |-> "images"],
      [text |-> "/version", fn |-> "version"] }

(* bot.MatchTypeExact; an update no handler matches goes to the bot's      *)
(* default handler, which only logs it.                                    *)
FindHandler(text) ==
    IF \E h \in handlers : h.text = text
    THEN (CHOOSE h \in handlers : h.text = text).fn
    ELSE "default"

Register(text, fn) == handlers' = handlers \cup {[text |-> text, fn |-> fn]}

(* A handler invocation: the update it was started for, its position, the *)
(* names its listing returned, the docker calls it made and the messages  *)
(* it sent.  raced: another invocation of its flow wrote the flow's       *)
(* keyboard while this one was between reply.New and its send.  onMenu,   *)
(* quiet: whether its text was a label on one of the two keyboards, or on *)
(* the menu that either flow sent last, when it was started, and whether  *)
(* no keyboard was being built then.                                      *)
IdleProc ==
    [pc |-> "idle", handler |-> "default", chat |-> 0, text |-> "",
     ctr |-> <<>>, i |-> 0, calls |-> <<>>, sends |-> <<>>,
     raced |-> FALSE, onMenu |-> FALSE, quiet |-> TRUE]

Building(p) == procs[p].pc \in {"button", "send"}

Invocation(chatId, text, fn) ==
    [IdleProc EXCEPT !.pc = "start", !.handler = fn, !.chat = chatId,
                     !.text = text,
                     !.onMenu = text \in LabelSet(logsReplyKeyboard)
                                           \cup LabelSet(restartReplyKeyboard)
                                           \cup LabelSet(opened["logs"])
                                           \cup LabelSet(opened["restart"]),
                     !.quiet = \A q \in Procs : ~Building(q)]

InitBot ==
    /\ logsReplyKeyboard = NoKeyboard
    /\ restartReplyKeyboard = NoKeyboard
    /\ handlers = MainHandlers
    /\ procs = [p \in Procs |-> IdleProc]
    /\ last = IdleProc
    /\ opened = [f \in Flows |-> NoKeyboard]
    /\ nUpdates = 0

Init == InitBot /\ fnIn = NoValue /\ fnOut = NoValue

(* An inbound text message from chat chatId that the bot hands to handler  *)
(* fn, in a goroutine of its own.                                          *)
Delivered(chatId, text, fn) ==
    /\ FindHandler(text) = fn
    /\ nUpdates' = nUpdates + 1

(* A handler that touches no shared state: run from its start to its      *)
(* return in one step, with result r.                                      *)
Returns(chatId, text, fn, r) ==
    /\ last' = [Invocation(chatId, text, fn) EXCEPT
                    !.pc = "done", !.calls = r.calls, !.sends = r.sends]
    /\ UNCHANGED <<logsReplyKeyboard, restartReplyKeyboard, handlers, procs,
                   opened, fnIn, fnOut>>

(* the bot's default handler: the update is logged *)
RunDefault(chatId, text) ==
    /\ Delivered(chatId, text, "default")
    /\ Returns(chatId, text, "default", Nothing)

RunPs(chatId, text) ==
    /\ Delivered(chatId, text, "ps")
    /\ \E r \in ps(chatId) : Returns(chatId, text, "ps", r)

RunImages(chatId, text) ==
    /\ Delivered(chatId, text, "images")
    /\ \E r \in images(chatId) : Returns(chatId, text, "images", r)

RunVersion(chatId, text) ==
    /\ Delivered(chatId, text, "version")
    /\ \E r \in version(chatId) : Returns(chatId, text, "version", r)

RunOnReplyLogs(chatId, text) ==
    /\ Delivered(chatId, text, "onReplyLogs")
    /\ \E r \in onReplyLogs(chatId, text) :
           Returns(chatId, text, "onReplyLogs", r)

RunOnReplyRestart(chatId, text) ==
    /\ Delivered(chatId, text, "onReplyRestart")
    /\ \E r \in onReplyRestart(chatId, text) :
           Returns(chatId, text, "onReplyRestart", r)

(* logs and restart, flow f: they write the shared keyboard of their flow  *)
(* statement by statement, with no lock.  A write marks the other          *)
(* invocations of the flow that are between their reply.New and their send.*)
Raced(p, f, new) ==
    [q \in Procs |->
        IF q # p /\ procs[q].handler = f /\ Building(q)
        THEN [new[q] EXCEPT !.raced = TRUE] ELSE new[q]]

(* the authorization check, reply.New and the listing call *)
FlowStart(chatId, text, f) ==
    /\ Delivered(chatId, text, f)
    /\ IF ~Authorized(chatId)
       THEN /\ last' = [Invocation(chatId, text, f) EXCEPT !.pc = "done"]
            /\ UNCHANGED <<logsReplyKeyboard, restartReplyKeyboard, procs>>
       ELSE \E p \in Procs, o \in ListContainersNamesOnly :
            /\ procs[p].pc = "idle"
            /\ \A q \in Procs : procs[q].pc = "idle" => p <= q
            /\ SetKeyboard(f, NewKeyboard(Keyboard(f)))
            /\ LET pr == AfterListing(Invocation(chatId, text, f), o)
               IN  IF pr.pc = "done"
                   THEN /\ last' = pr
                        /\ procs' = Raced(p, f, procs)
                   ELSE /\ procs' = Raced(p, f, [procs EXCEPT ![p] = pr])
                        /\ last' = IdleProc
    /\ UNCHANGED <<handlers, opened, fnIn, fnOut>>

(* one round of the loop, the Button call of a name and the Row call      *)
(* after it, or the Button call of the cancel label.  Row opens an empty   *)
(* row and touches no label, so it is taken in the step of its Button.     *)
FlowButton(p, f) ==
    /\ procs[p].pc = "button" /\ procs[p].handler = f
    /\ LET pr == procs[p]
           more == pr.i <= Len(pr.ctr)
           label == IF more THEN ButtonLabel(f, pr.ctr[pr.i]) ELSE CancelLabel(f)
           kb == Button(Keyboard(f), label)
       IN  /\ SetKeyboard(f, IF more THEN Row(kb) ELSE kb)
           /\ Register(label, ReplyHandler(f))
           /\ procs' = Raced(p, f, [procs EXCEPT
                  ![p].pc = IF more THEN "button" ELSE "send",
                  ![p].i = IF more THEN @ + 1 ELSE @])
    /\ last' = IdleProc
    /\ UNCHANGED <<opened, nUpdates, fnIn, fnOut>>

(* b.SendMessage of "Select container:" with the keyboard of the flow *)
FlowSend(p, f) ==
    /\ procs[p].pc = "send" /\ procs[p].handler = f
    /\ last' = [procs[p] EXCEPT
                    !.pc = "done",
                    !.sends = Append(@, SendMenu(procs[p].chat, Keyboard(f)))]
    /\ procs' = [procs EXCEPT ![p] = IdleProc]
    /\ opened' = [opened EXCEPT ![f] = Keyboard(f)]
    /\ UNCHANGED <<logsReplyKeyboard, restartReplyKeyboard, handlers, nUpdates,
                   fnIn, fnOut>>

logs(chatId, text) == FlowStart(chatId, text, "logs")
initLogKeyboardButton(p) == FlowButton(p, "logs")
logsSend(p) == FlowSend(p, "logs")

restart(chatId, text) == FlowStart(chatId, text, "restart")
initRestartKeyboardButton(p) == FlowButton(p, "restart")
restartSend(p) == FlowSend(p, "restart")

Updates ==
    \E c \in ChatIds, t \in Texts :
        \/ RunDefault(c, t)
        \/ RunPs(c, t)
        \/ RunImages(c, t)
        \/ RunVersion(c, t)
        \/ RunOnReplyLogs(c, t)
        \/ RunOnReplyRestart(c, t)
        \/ logs(c, t)
        \/ restart(c, t)

Continue ==
    \E p \in Procs :
        \/ initLogKeyboardButton(p)
        \/ logsSend(p)
        \/ initRestartKeyboardButton(p)
        \/ restartSend(p)

Receive == nUpdates < MaxUpdates /\ Updates

Next == Receive \/ Continue

Spec == Init /\ [][Next]_vars

(* The same program when the transport hands over one update at a time,    *)
(* each handler returning before the next update arrives.                  *)
ReceiveWhenIdle ==
    /\ nUpdates < MaxSeqUpdates
    /\ \A p \in Procs : ~Building(p)
    /\ Updates

NextSeq == ReceiveWhenIdle \/ Continue

SpecSeq == Init /\ [][NextSeq]_vars

-----------------------------------------------------------------------------
(* The pure functions applied to their inputs *)

InitSize == InitBot /\ fnIn \in ByteCounts /\ fnOut = NoValue

ApplyPrettyByteSize ==
    /\ fnOut = NoValue
    /\ fnOut' = prettyByteSize(fnIn)
    /\ UNCHANGED <<botVars, fnIn>>

SpecSize == InitSize /\ [][ApplyPrettyByteSize]_vars

InitImages == InitBot /\ fnIn \in ImageLists /\ fnOut = NoValue

ApplyGetImages ==
    /\ fnOut = NoValue
    /\ fnOut' = GetImages(fnIn)
    /\ UNCHANGED <<botVars, fnIn>>

SpecImages == InitImages /\ [][ApplyGetImages]_vars

-----------------------------------------------------------------------------
(* What the claims speak of *)

(* the handler invocation that has just returned *)
Returned == last.pc = "done"

FromAllowed == last.chat \in allowedChatIds

(* the listing call of a logs or restart invocation succeeded *)
ListingOk(r) == r.calls # <<>> /\ r.calls[1].err = ""

(* one "<Action> <name>" button per name, in order, then the cancel button *)
ExpectedButtons(f, names) ==
    [i \in 1..(Len(names) + 1) |->
        IF i <= Len(names)
        THEN (IF f = "logs" THEN "Logs " ELSE "Restart ") \o names[i]
        ELSE (IF f = "logs" THEN "Cancel Logs" ELSE "Cancel Restart")]

(* the whole text after the first space *)
AfterFirstSpace(text) ==
    LET i == CHOOSE k \in 1..Len(text) :
                 /\ SubSeq(text, k, k) = " "
                 /\ \A j \in 1..(k - 1) : SubSeq(text, j, j) # " "
    IN  SubSeq(text, i + 1, Len(text))

IsSelection ==
    \/ last.handler = "onReplyLogs" /\ HasPrefix(last.text, "Logs ")
    \/ last.handler = "onReplyRestart" /\ HasPrefix(last.text, "Restart ")

IsCancel ==
    \/ last.handler = "onReplyLogs" /\ last.text = "Cancel Logs"
    \/ last.handler = "onReplyRestart" /\ last.text = "Cancel Restart"

EngineFunction ==
    CASE last.handler = "ps" -> "ListContainers"
      [] last.handler = "images" -> "GetImages"
      [] last.handler = "version" -> "GetDockerVersion"
      [] last.handler = "onReplyLogs" -> "TailLogs"
      [] last.handler = "onReplyRestart" -> "RestartContainer"
      [] OTHER -> "ListContainersNamesOnly"

(* C1: an invocation from a chat that is not allowed sends nothing and     *)
(* calls no docker function, whatever the handler and whatever menus were  *)
(* opened before; and no keyboard is ever being built for such a chat.     *)
C1_UnauthorizedSilent ==
    /\ (Returned /\ ~FromAllowed) => last.sends = <<>> /\ last.calls = <<>>
    /\ \A p \in Procs : Building(p) => procs[p].chat \in allowedChatIds

(* an unauthorized chat pressed a button of a menu that was opened *)
C1_Witness ==
    /\ Returned /\ ~FromAllowed
    /\ last.handler = "onReplyRestart"
    /\ restartReplyKeyboard # NoKeyboard

C3_SelectionCallsWholeName ==
    (Returned /\ FromAllowed /\ IsSelection)
        => /\ Len(last.calls) = 1
           /\ last.calls[1].fn = EngineFunction
           /\ last.calls[1].arg = AfterFirstSpace(last.text)
           /\ Len(last.sends) = 1

(* C4: a cancel reply from an allowed chat makes no docker call and sends  *)
(* exactly one message, "Cancelled.", to that chat.                        *)
C4_CancelReplies ==
    (Returned /\ FromAllowed /\ IsCancel)
        => /\ last.calls = <<>>
           /\ last.sends = <<[chat |-> last.chat, text |-> "Cancelled.",
                              markup |-> NoKeyboard]>>

C4_Witness == Returned /\ FromAllowed /\ IsCancel /\ last.text = "Cancel Logs"

(* C5: once a menu has been opened, a text that is no label of it (no     *)
(* button of the menu that either flow sent last or holds now, nor their   *)
(* cancel labels) and is no command causes no docker call and no message.  *)
C5_OffMenuTextIgnored ==
    (/\ Returned
     /\ opened["logs"] # NoKeyboard \/ opened["restart"] # NoKeyboard
     /\ last.quiet /\ ~last.onMenu
     /\ last.text \notin Commands)
        => last.calls = <<>> /\ last.sends = <<>>

(* C6: when the listing fails in /logs or /restart from an allowed chat,   *)
(* the handler sends exactly one message, the error's text, to that chat,  *)
(* without a menu, and nothing else.                                       *)
C6_ListingFailure ==
    (Returned /\ FromAllowed /\ last.handler \in Flows /\ ~ListingOk(last))
        => /\ Len(last.calls) = 1
           /\ last.sends = <<[chat |-> last.chat, text |-> last.calls[1].err,
                              markup |-> NoKeyboard]>>

C6_Witness ==
    /\ Returned /\ FromAllowed /\ last.handler = "logs"
    /\ Len(last.calls) = 1 /\ last.calls[1].err = ErrApi

(* C7: /ps, /images, /version and a selection reply from an allowed chat   *)
(* call their docker function exactly once, which sends at most one        *)
(* request to the engine; exactly one message follows, and when the call   *)
(* failed it is the error's text, to the requesting chat.                  *)
C7_SingleAttempt ==
    (/\ Returned /\ FromAllowed
     /\ last.handler \in {"ps", "images", "version"} \/ IsSelection)
        => /\ Len(last.calls) = 1
           /\ last.calls[1].fn = EngineFunction
           /\ last.calls[1].api <= 1
           /\ Len(last.sends) = 1
           /\ last.sends[1].chat = last.chat
           /\ last.calls[1].err # "" => last.sends[1].text = last.calls[1].err

C7_Witness ==
    /\ Returned /\ FromAllowed /\ last.handler = "version"
    /\ Len(last.calls) = 1 /\ last.calls[1].err = ErrApi

(* the unit a rendered size ends with *)
UnitOf(s) ==
    IF Len(s) >= 3 /\ SubSeq(s, Len(s) - 2, Len(s) - 2) \in
                          {"K", "M", "G", "T", "P", "E", "Z", "Y"}
    THEN SubSeq(s, Len(s) - 2, Len(s))
    ELSE SubSeq(s, Len(s), Len(s))

(* the unit with the smallest index k such that |b| < 1024^(k+1) *)
SmallestUnit(mag) ==
    IF \E k \in 0..7 : Len(mag) <= k + 1
    THEN <<"B", "KiB", "MiB", "GiB", "TiB", "PiB", "EiB", "ZiB">>
            [(CHOOSE k \in 0..7 : Len(mag) <= k + 1
                                    /\ \A j \in 0..(k - 1) : Len(mag) > j + 1) + 1]
    ELSE "YiB"

(* C8: prettyByteSize renders b in the unit with the smallest index k such *)
(* that |b| < 1024^(k+1); 0 is "0.0B", 1024 "1.0KiB", 1048576 "1.0MiB".    *)
C8_UnitIsSmallestFit ==
    /\ prettyByteSize(SizeOf(<<>>)) = "0.0B"
    /\ prettyByteSize(SizeOf(<<1, 0>>)) = "1.0KiB"
    /\ prettyByteSize(SizeOf(<<1, 0, 0>>)) = "1.0MiB"
    /\ fnOut # NoValue => UnitOf(fnOut) = SmallestUnit(fnIn.mag)

Tagged(list) == SelectSeq(list, LAMBDA im : im.RepoTags # <<>>)

Untagged(list) == SelectSeq(list, LAMBDA im : im.RepoTags = <<>>)

SentMenu == last.sends[Len(last.sends)].markup

SentSelect ==
    /\ Returned /\ last.handler \in Flows /\ last.sends # <<>>
    /\ last.sends[Len(last.sends)].text = "Select container:"

(* C10: the "Select container:" message of a /logs or /restart can carry   *)
(* a menu that is not the one of the handler's own listing; it does so     *)
(* only when another invocation of the flow wrote the shared keyboard      *)
(* between this handler's reply.New and its send.                          *)
C10_ForeignMenuOnlyByRace ==
    (SentSelect /\ Labels(SentMenu) # ExpectedButtons(last.handler, last.ctr))
        => last.raced

(* two chats, two /logs: one is sent a menu that its listing did not give *)
C10_Witness ==
    /\ SentSelect /\ last.handler = "logs"
    /\ Labels(SentMenu) # ExpectedButtons("logs", last.ctr)
    /\ \E p \in Procs : Building(p) /\ procs[p].handler = "logs"
                          /\ procs[p].chat # last.chat

Examples ==
    /\ prettyByteSize(SizeOf(<<>>)) = "0.0B"
    /\ prettyByteSize(SizeOf(<<1, 0>>)) = "1.0KiB"
    /\ prettyByteSize(SizeOf(<<1, 0, 0>>)) = "1.0MiB"
    /\ prettyByteSize(SizeOf(<<1, 512, 0>>)) = "1.5MiB"
    /\ prettyByteSize(SizeOf(<<1023, 1023>>)) = "1024.0KiB"
    /\ prettyByteSize(SizeOf(<<1023>>)) = "1023.0B"
    /\ prettyByteSize(SizeOf(<<1, 51>>)) = "1.0KiB"
    /\ prettyByteSize(SizeOf(<<1, 52>>)) = "1.1KiB"
    /\ prettyByteSize(SizeOf(<<1023, 1023, 1023, 1023, 1023, 1023>>)) = "1.0EiB"
    /\ prettyByteSize(SizeOf(<<1023, 1023, 1023, 1023, 1023, 959>>)) = "1024.0PiB"
    /\ prettyByteSize(SizeOf(<<1023, 1023, 1023, 1023, 1023, 960>>)) = "1.0EiB"
    /\ prettyByteSize(SizeOf(<<7, 1023, 1023, 1023, 1023, 1023, 1023>>)) = "8.0EiB"
    /\ prettyByteSize([neg |-> TRUE, mag |-> <<2, 0>>]) = "-2.0KiB"

====
